---- MODULE Spec2Model ----
(***************************************************************************)
(* Rate limiting of pokewatch (src/src/pokewatch/api/rate_limiter.py):     *)
(* the TokenBucket, the in-memory RateLimiter that owns one bucket per     *)
(* client key, and the interleavings of its handlers on several threads.   *)
(*                                                                         *)
(* Numbers.  The clock (time.time()) is counted in whole seconds.  Token   *)
(* levels are Python floats; here they are exact integers counted in       *)
(* 1/TokenScale of a token, so that a refill rate of requests_per_minute   *)
(* / 60 tokens per second is the integer requests_per_minute units per     *)
(* second and no rounding enters the arithmetic.  A bucket's refill_rate   *)
(* field is held in those units per second; its capacity in whole tokens,  *)
(* as the constructor receives it.                                         *)
(***************************************************************************)
EXTENDS Integers, Sequences, FiniteSets, TLC

VARIABLES
    now,                 \* the value time.time() returns, in seconds
    \* ---- a TokenBucket used on its own
    tb,                  \* the bucket: capacity, refill_rate, tokens, last_refill
    tbRet,               \* what the last call on it returned
    \* ---- a RateLimiter used by one caller at a time
    enabled,             \* RateLimiter.enabled
    requests_per_minute, \* RateLimiter.requests_per_minute
    burst_size,          \* RateLimiter.burst_size
    burst_size_arg,      \* history: the burst_size argument the constructor
                         \* was given, None when it was left out
    refill_rate,         \* RateLimiter.refill_rate, in units per second
    buckets,             \* RateLimiter.buckets: key -> bucket
    result,              \* what the last call on the limiter returned (and, as
                         \* history, what a reset had discarded for its key)
    seen,                \* history: per live bucket, when it was created, how
                         \* many checks it has served and the time of its latest
                         \* rejection not followed by an admission (-1: none)
    discarded,           \* history: the keys reset and not checked since, each
                         \* with whether the bucket discarded was exhausted
    \* ---- a RateLimiter used by several threads at once; buckets then maps a
    \* key to a reference into heap
    heap,                \* the TokenBucket objects made so far, by reference
    pc,                  \* per thread, the statement it is about to execute
    frame,               \* per thread, the local variables of its call
    outcome,             \* per thread, how its last call ended
    started,             \* history: the number of calls started
    resets,              \* history: the number of resets made
    admitted,            \* history: per key, the number of checks admitted
    \* ---- a RedisRateLimiter used by one caller at a time
    redis_client,        \* the store behind RedisRateLimiter.redis_client:
                         \* redis key -> sorted set (member -> score) and the
                         \* time its expiry falls due
    redisRet,            \* how the last call on the RedisRateLimiter ended
    \* ---- the other components, each used on its own
    pipeline,            \* a run of run_ml_pipeline: where it is, the steps it
                         \* has called, the values they returned, its result
    auth,                \* an APIKeyAuth: api_keys, required, and how the last
                         \* call on it ended
    stack,               \* a request on its way through the middleware that
                         \* setup_middleware installs
    model,               \* a BaselineFairPriceModel: its cache, its counters
                         \* and what the last predict returned
    admittedAt           \* history: per key, the clock values of the checks
                         \* admitted on it (since its last reset)

vars == <<now, tb, tbRet, enabled, requests_per_minute, burst_size,
          burst_size_arg, refill_rate, buckets, result, seen, discarded,
          heap, pc, frame, outcome, started, resets, admitted,
          redis_client, redisRet, pipeline, auth, stack, model, admittedAt>>

(***************************************************************************)
(* Bounds of the model.                                                    *)
(***************************************************************************)
MaxTime == 2
MaxCapacity == 3
MaxConsume == 2
MaxBurst == 3
MaxCalls == 5
MaxThreadBurst == 2
MaxStarted == 2
MaxResets == 1
MaxThreadTime == 1

\* At most this many admitted checks are made on one key.
MaxAdmitted == 8

\* The size the prediction cache is limited to (_cache_max_size, 1000 in
\* the source, scaled down so that the cache fills up), and the number of
\* counted predict calls between two clear_cache calls.
MaxCacheSize == 2
MaxPredicts == 5

\* run_ml_pipeline is run at most this many times.
MaxRuns == 2

\* The clock of the RedisRateLimiter specification moves by half a window at
\* a time, at most this many times.
MaxRedisTicks == 3

(***************************************************************************)
(* Program constants.                                                      *)
(***************************************************************************)
TokenScale == 60
DayFallback == 86400

\* MAPE_THRESHOLD = 20.0 and COVERAGE_THRESHOLD = 0.80 of validate_model_step,
\* both in percent.
MapeThreshold == 20
CoverageThreshold == 80

\* window = 60 in check_rate_limit_redis: the width of the sliding window and
\* the expiry of a key, in seconds.
Window == 60

Keys == {"", "k1"}
RpmValues == {0, 40, 60}
RateValues == {0, 30, 60, 90}
ThreadRpmValues == {0, 60}

None == <<>>
Some(x) == <<x>>
Optional(S) == {None} \cup {Some(x) : x \in S}

Min(a, b) == IF a <= b THEN a ELSE b
Max(a, b) == IF a >= b THEN a ELSE b

\* Python's int() of the rational num/den (den > 0): truncation toward zero.
PyInt(num, den) == IF num >= 0 THEN num \div den ELSE -((-num) \div den)

\* Python's str() of an integer: its decimal digits, "-" first when negative.
Digit(d) == <<"0", "1", "2", "3", "4", "5", "6", "7", "8", "9">>[d + 1]

RECURSIVE StrNat(_)
StrNat(n) == IF n < 10 THEN <<Digit(n)>> ELSE StrNat(n \div 10) \o <<Digit(n % 10)>>

Str(n) == IF n < 0 THEN <<"-">> \o StrNat(-n) ELSE StrNat(n)

\* Python's truthiness of an Optional[str]: None and "" are both false.
Truthy(opt) == opt /= None /\ opt[1] /= ""

\* Python's truthiness of an Optional[int]: None and 0 are both false.
TruthyInt(opt) == opt /= None /\ opt[1] /= 0

(***************************************************************************)
(* TokenBucket.  Each method is a function of the bucket and of the clock  *)
(* value its _refill reads; it gives the bucket afterwards and the value   *)
(* returned.                                                               *)
(***************************************************************************)
\* Faulty variant: a bucket that starts empty.
TokenBucketInitEmpty(capacity, rate, t) ==
    [capacity |-> capacity, refill_rate |-> rate, tokens |-> 0, last_refill |-> t]

TokenBucketInit(capacity, rate, t) ==
    [capacity |-> capacity, refill_rate |-> rate,
     tokens |-> capacity * TokenScale, last_refill |-> t]

\* Faulty variant: a refill with no cap at the capacity.
RefillUncapped(b, t) ==
    [b EXCEPT !.tokens = b.tokens + (t - b.last_refill) * b.refill_rate,
              !.last_refill = t]

\* Faulty variant: a refill that does not advance last_refill.
RefillKeepsStamp(b, t) ==
    [b EXCEPT !.tokens = Min(b.capacity * TokenScale,
                             b.tokens + (t - b.last_refill) * b.refill_rate)]

Refill(b, t) ==
    [b EXCEPT !.tokens = Min(b.capacity * TokenScale,
                             b.tokens + (t - b.last_refill) * b.refill_rate),
              !.last_refill = t]

\* Faulty variant: a consume that needs more than n tokens.
ConsumeStrict(b, n, t) ==
    LET r == Refill(b, t)
    IN  IF r.tokens > n * TokenScale
        THEN [bucket |-> [r EXCEPT !.tokens = r.tokens - n * TokenScale], ret |-> TRUE]
        ELSE [bucket |-> r, ret |-> FALSE]

\* Faulty variant: a consume that tests the level left by the last call,
\* without refilling first.
ConsumeNoRefill(b, n, t) ==
    IF b.tokens >= n * TokenScale
    THEN [bucket |-> [b EXCEPT !.tokens = b.tokens - n * TokenScale], ret |-> TRUE]
    ELSE [bucket |-> b, ret |-> FALSE]

\* Faulty variant: a successful consume that leaves the tokens where they
\* were.
ConsumeKeepsTokens(b, n, t) ==
    LET r == Refill(b, t)
    IN  [bucket |-> r, ret |-> r.tokens >= n * TokenScale]

Consume(b, n, t) ==
    LET r == Refill(b, t)
    IN  IF r.tokens >= n * TokenScale
        THEN [bucket |-> [r EXCEPT !.tokens = r.tokens - n * TokenScale], ret |-> TRUE]
        ELSE [bucket |-> r, ret |-> FALSE]

\* Faulty variant: a get_tokens that reports the stored level without
\* refilling.
GetTokensStale(b, t) == [bucket |-> b, ret |-> b.tokens]

GetTokens(b, t) ==
    LET r == Refill(b, t)
    IN  [bucket |-> r, ret |-> r.tokens]

\* Faulty variant: no "never" sentinel when the refill rate is 0.
TimeUntilTokensNoSentinel(b, n, t) ==
    LET r == Refill(b, t)
    IN  IF r.tokens >= n * TokenScale \/ r.refill_rate = 0
        THEN [bucket |-> r, ret |-> [inf |-> FALSE, num |-> 0, den |-> 1]]
        ELSE [bucket |-> r,
              ret |-> [inf |-> FALSE, num |-> n * TokenScale - r.tokens,
                       den |-> r.refill_rate]]

\* What time_until_tokens(n) returns once it has refilled, from the level and
\* the rate it reads: the seconds are the rational num/den; inf stands for
\* float("inf").
TimeUntil(tokens, rate, n) ==
    IF tokens >= n * TokenScale THEN [inf |-> FALSE, num |-> 0, den |-> 1]
    ELSE IF rate = 0 THEN [inf |-> TRUE, num |-> 0, den |-> 1]
    ELSE [inf |-> FALSE, num |-> n * TokenScale - tokens, den |-> rate]

TimeUntilTokens(b, n, t) ==
    LET r == Refill(b, t)
    IN  [bucket |-> r, ret |-> TimeUntil(r.tokens, r.refill_rate, n)]

(***************************************************************************)
(* The clock.                                                              *)
(***************************************************************************)
Tick ==
    /\ now < MaxTime
    /\ now' = now + 1
    /\ UNCHANGED <<tb, tbRet, enabled, requests_per_minute, burst_size,
                   burst_size_arg, refill_rate, buckets, result, seen, discarded,
                   heap, pc, frame, outcome, started, resets, admitted,
                   redis_client, redisRet, pipeline, auth, stack, model, admittedAt>>

(***************************************************************************)
(* A TokenBucket on its own: TokenBucket(capacity, refill_rate) and then   *)
(* any sequence of its methods.                                            *)
(***************************************************************************)
configVars == <<enabled, requests_per_minute, burst_size, burst_size_arg,
                refill_rate>>
limiterVars == <<configVars, buckets, result, seen, discarded>>
threadVars == <<heap, pc, frame, outcome, started, resets, admitted>>
redisVars == <<redis_client, redisRet>>
appVars == <<pipeline, auth, stack, model, admittedAt>>

Threads == {1, 2}

\* The local variables of a thread that is in no call.
NoFrame == [key |-> "", bucket |-> 0, caller |-> "", now |-> 0, val |-> 0,
            allowed |-> FALSE, remaining |-> 0]

NoThreads ==
    /\ heap = <<>>
    /\ pc = [t \in Threads |-> "idle"]
    /\ frame = [t \in Threads |-> NoFrame]
    /\ outcome = [t \in Threads |-> [kind |-> "none"]]
    /\ started = 0
    /\ resets = 0
    /\ admitted = [k \in Keys |-> 0]

EmptyMap == [k \in {} |-> 0]

\* No RedisRateLimiter in use: nothing stored, nothing called.
NoRedis ==
    /\ redis_client = EmptyMap
    /\ redisRet = [op |-> "init"]

\* The other components are not in use.
NoPipeline == pipeline = [pc |-> "unused"]
NoAuth == auth = [op |-> "unused"]
NoStack == stack = [pc |-> "unused"]
NoModel == model = [op |-> "unused"]

\* No admitted check recorded.
NoHistory == admittedAt = EmptyMap

NoApp ==
    /\ NoPipeline
    /\ NoAuth
    /\ NoStack
    /\ NoModel
    /\ NoHistory

NoLimiter ==
    /\ enabled = FALSE
    /\ requests_per_minute = 0
    /\ burst_size = 0
    /\ burst_size_arg = None
    /\ refill_rate = 0
    /\ buckets = EmptyMap
    /\ result = [op |-> "init"]
    /\ seen = EmptyMap
    /\ discarded = EmptyMap

BucketInit ==
    /\ now = 0
    /\ \E capacity \in 1..MaxCapacity, rate \in RateValues :
          tb = TokenBucketInit(capacity, rate, 0)
    /\ tbRet = [op |-> "init"]
    /\ NoLimiter
    /\ NoThreads
    /\ NoRedis
    /\ NoApp

BucketConsume(n) ==
    /\ tb' = Consume(tb, n, now).bucket
    /\ tbRet' = [op |-> "consume", n |-> n, ret |-> Consume(tb, n, now).ret]
    /\ UNCHANGED <<now, redisVars, appVars, limiterVars, threadVars>>

BucketGetTokens ==
    /\ tb' = GetTokens(tb, now).bucket
    /\ tbRet' = [op |-> "get_tokens", ret |-> GetTokens(tb, now).ret]
    /\ UNCHANGED <<now, redisVars, appVars, limiterVars, threadVars>>

BucketTimeUntilTokens(n) ==
    /\ tb' = TimeUntilTokens(tb, n, now).bucket
    /\ tbRet' = [op |-> "time_until_tokens", n |-> n,
                 ret |-> TimeUntilTokens(tb, n, now).ret]
    /\ UNCHANGED <<now, redisVars, appVars, limiterVars, threadVars>>

BucketNext ==
    \/ Tick
    \/ \E n \in 1..MaxConsume : BucketConsume(n)
    \/ BucketGetTokens
    \/ \E n \in 1..MaxConsume : BucketTimeUntilTokens(n)

SpecBucket == BucketInit /\ [][BucketNext]_vars

\* C1: a TokenBucket of capacity C >= 1 and refill rate r >= 0 keeps
\* 0 <= tokens <= C after any sequence of consume(n), get_tokens(),
\* time_until_tokens(n) and clock advances.
TokensWithinCapacity ==
    /\ 0 <= tb.tokens
    /\ tb.tokens <= tb.capacity * TokenScale

\* A refill over elapsed time that left too little for the consume asked for.
TokensWithinCapacityWitness ==
    /\ tbRet.op = "consume"
    /\ tbRet.ret = FALSE
    /\ tb.last_refill > 0
    /\ tb.tokens > 0
    /\ tb.refill_rate > 0

(***************************************************************************)
(* RateLimiter, one caller at a time: every handler runs to its end        *)
(* before the next starts, and the clock does not move inside a handler.   *)
(***************************************************************************)
bucketVars == <<tb, tbRet>>

\* burst_size or requests_per_minute
BurstOrDefault(burstArg, rpm) == IF TruthyInt(burstArg) THEN burstArg[1] ELSE rpm

RateLimiterInit(rpm, burstArg, en) ==
    /\ enabled = en
    /\ requests_per_minute = rpm
    /\ burst_size = BurstOrDefault(burstArg, rpm)
    /\ burst_size_arg = burstArg
    /\ refill_rate = rpm
    /\ buckets = EmptyMap

Init ==
    /\ now = 0
    /\ tb = TokenBucketInit(1, 0, 0)
    /\ tbRet = [op |-> "init"]
    /\ \E rpm \in RpmValues, burstArg \in Optional(0..MaxBurst), en \in BOOLEAN :
          RateLimiterInit(rpm, burstArg, en)
    /\ result = [op |-> "init"]
    /\ seen = EmptyMap
    /\ discarded = EmptyMap
    /\ NoThreads
    /\ NoRedis
    /\ NoApp

MapPut(f, key, v) == [k \in DOMAIN f \cup {key} |-> IF k = key THEN v ELSE f[k]]
MapPop(f, key) == [k \in DOMAIN f \ {key} |-> f[k]]

\* Faulty variant: a key without a bucket is given the bucket of another key.
GetBucketShared(bs, key, t) ==
    IF key \notin DOMAIN bs
    THEN MapPut(bs, key, IF DOMAIN bs = {}
                         THEN TokenBucketInit(burst_size, refill_rate, t)
                         ELSE bs[CHOOSE k \in DOMAIN bs : TRUE])
    ELSE bs

\* The bucket map after _get_bucket(key); the bucket returned is its entry at key.
GetBucket(bs, key, t) ==
    IF key \notin DOMAIN bs
    THEN MapPut(bs, key, TokenBucketInit(burst_size, refill_rate, t))
    ELSE bs

\* Faulty variant: Retry-After is sent with every decision.
HeadersRetryAlways(allowed, remaining, time_until, t) ==
    LET reset_time == IF time_until.inf
                      THEN t + DayFallback
                      ELSE PyInt(t * time_until.den + time_until.num, time_until.den)
        retry_after == IF time_until.inf
                       THEN DayFallback
                       ELSE PyInt(time_until.num, time_until.den) + 1
    IN  [h \in {"X-RateLimit-Limit", "X-RateLimit-Remaining", "X-RateLimit-Reset",
                "Retry-After"} |->
            CASE h = "X-RateLimit-Limit" -> Str(requests_per_minute)
              [] h = "X-RateLimit-Remaining" -> Str(Max(0, remaining))
              [] h = "X-RateLimit-Reset" -> Str(reset_time)
              [] h = "Retry-After" -> Str(retry_after)]

\* Faulty variant: Retry-After is the truncated wait, without the second
\* added to it.
HeadersRetryTruncated(allowed, remaining, time_until, t) ==
    LET reset_time == IF time_until.inf
                      THEN t + DayFallback
                      ELSE PyInt(t * time_until.den + time_until.num, time_until.den)
        retry_after == IF time_until.inf
                       THEN DayFallback
                       ELSE PyInt(time_until.num, time_until.den)
        names == {"X-RateLimit-Limit", "X-RateLimit-Remaining", "X-RateLimit-Reset"}
                     \cup (IF allowed THEN {} ELSE {"Retry-After"})
    IN  [h \in names |->
            CASE h = "X-RateLimit-Limit" -> Str(requests_per_minute)
              [] h = "X-RateLimit-Remaining" -> Str(Max(0, remaining))
              [] h = "X-RateLimit-Reset" -> Str(reset_time)
              [] h = "Retry-After" -> Str(retry_after)]

NoHeaders == [h \in {} |-> <<>>]

\* The headers check_rate_limit builds from the decision, from int(get_tokens())
\* and from time_until_tokens(1), at clock value t.
Headers(allowed, remaining, time_until, t) ==
    LET reset_time == IF time_until.inf
                      THEN t + DayFallback
                      ELSE PyInt(t * time_until.den + time_until.num, time_until.den)
        retry_after == IF time_until.inf
                       THEN DayFallback
                       ELSE PyInt(time_until.num, time_until.den) + 1
        names == {"X-RateLimit-Limit", "X-RateLimit-Remaining", "X-RateLimit-Reset"}
                     \cup (IF allowed THEN {} ELSE {"Retry-After"})
    IN  [h \in names |->
            CASE h = "X-RateLimit-Limit" -> Str(requests_per_minute)
              [] h = "X-RateLimit-Remaining" -> Str(Max(0, remaining))
              [] h = "X-RateLimit-Reset" -> Str(reset_time)
              [] h = "Retry-After" -> Str(retry_after)]

\* Faulty variant: the remaining count is read before the token is taken.
CheckOutcomeRemainingBefore(bs, key, t) ==
    LET bs1 == GetBucket(bs, key, t)
        g == GetTokens(bs1[key], t)
        c == Consume(g.bucket, 1, t)
        u == TimeUntilTokens(c.bucket, 1, t)
    IN  [buckets |-> MapPut(bs1, key, u.bucket),
         allowed |-> c.ret,
         headers |-> Headers(c.ret, PyInt(g.ret, TokenScale), u.ret, t)]

\* The enabled branch of check_rate_limit(key) at clock value t on bucket map bs.
CheckOutcome(bs, key, t) ==
    LET bs1 == GetBucket(bs, key, t)
        c == Consume(bs1[key], 1, t)
        g == GetTokens(c.bucket, t)
        u == TimeUntilTokens(g.bucket, 1, t)
    IN  [buckets |-> MapPut(bs1, key, u.bucket),
         allowed |-> c.ret,
         headers |-> Headers(c.ret, PyInt(g.ret, TokenScale), u.ret, t)]

\* Faulty variant: the enabled switch is ignored.
BypassNever == FALSE

\* if not self.enabled: return True, {}
Bypass == ~enabled

\* The history after a check on key that returned allowed.
SeenAfterCheck(key, allowed) ==
    LET old == IF key \in DOMAIN seen
               THEN seen[key]
               ELSE [created |-> now, calls |-> 0, rejectedAt |-> -1]
    IN  MapPut(seen, key,
               [old EXCEPT !.calls = @ + 1,
                           !.rejectedAt = IF allowed THEN -1 ELSE now])

CheckRateLimit(key) ==
    /\ key \in DOMAIN seen => seen[key].calls < MaxCalls
    /\ IF Bypass
       THEN /\ result' = [op |-> "check", key |-> key, allowed |-> TRUE,
                          headers |-> NoHeaders, replaced |-> "nothing"]
            /\ UNCHANGED <<buckets, seen, discarded>>
       ELSE /\ buckets' = CheckOutcome(buckets, key, now).buckets
            /\ result' = [op |-> "check", key |-> key,
                          allowed |-> CheckOutcome(buckets, key, now).allowed,
                          headers |-> CheckOutcome(buckets, key, now).headers,
                          replaced |-> IF key \in DOMAIN discarded
                                       THEN discarded[key] ELSE "nothing"]
            /\ seen' = SeenAfterCheck(key, CheckOutcome(buckets, key, now).allowed)
            /\ discarded' = MapPop(discarded, key)
    /\ UNCHANGED <<now, redisVars, appVars, bucketVars, configVars, threadVars>>

\* The keys whose buckets reset(arg) discards: arg is None or a key.
ResetTargets(arg) == IF Truthy(arg) THEN {arg[1]} ELSE Keys

\* The history after reset(arg).
DiscardedAfterReset(arg) ==
    [k \in DOMAIN discarded \cup ResetTargets(arg) |->
        IF k \notin ResetTargets(arg) THEN discarded[k]
        ELSE IF k \in DOMAIN buckets
        THEN (IF buckets[k].tokens < TokenScale THEN "exhausted" ELSE "available")
        ELSE IF k \in DOMAIN discarded THEN discarded[k]
        ELSE "nothing"]

Reset(arg) ==
    /\ IF Truthy(arg)
       THEN /\ buckets' = MapPop(buckets, arg[1])
            /\ seen' = MapPop(seen, arg[1])
       ELSE /\ buckets' = EmptyMap
            /\ seen' = EmptyMap
    /\ discarded' = DiscardedAfterReset(arg)
    /\ result' = [op |-> "reset", key |-> arg]
    /\ UNCHANGED <<now, redisVars, appVars, bucketVars, configVars, threadVars>>

Next ==
    \/ Tick
    \/ \E key \in Keys : CheckRateLimit(key)
    \/ \E arg \in Optional(Keys) : Reset(arg)

Spec == Init /\ [][Next]_vars

(***************************************************************************)
(* Claims about the RateLimiter used by one caller at a time.              *)
(***************************************************************************)
\* The number of checks the live bucket of key has served (0: no bucket).
CallsOn(key) == IF key \in DOMAIN seen THEN seen[key].calls ELSE 0

\* No time has passed since the bucket of key was created (or it is yet to be).
NoTimeSinceCreated(key) == key \in DOMAIN seen => seen[key].created = now

\* C2: on an enabled limiter of burst size B, a run of B+1 consecutive
\* checks on a key never seen before admits the first B and rejects the
\* (B+1)-th, with a Retry-After header: with no time passing since the key's
\* first check, the j-th check on it is admitted if and only if j <= B.
BurstThenReject ==
    [][\A key \in Keys :
          (enabled /\ CheckRateLimit(key) /\ NoTimeSinceCreated(key)) =>
              /\ result'.allowed <=> (CallsOn(key) + 1 <= burst_size)
              /\ ~result'.allowed => "Retry-After" \in DOMAIN result'.headers
              /\ result'.allowed => "Retry-After" \notin DOMAIN result'.headers]_vars

\* The (B+1)-th check of such a run, rejected, for a burst size B >= 2.
BurstThenRejectWitness ==
    /\ enabled
    /\ burst_size >= 2
    /\ result.op = "check"
    /\ ~result.allowed
    /\ "Retry-After" \in DOMAIN result.headers
    /\ seen[result.key].created = now
    /\ seen[result.key].calls = burst_size + 1

\* The buckets of every key but key are the same before and after the step.
OthersUntouched(key) ==
    \A other \in Keys \ {key} :
        /\ other \in DOMAIN buckets' <=> other \in DOMAIN buckets
        /\ other \in DOMAIN buckets => buckets'[other] = buckets[other]

\* The bucket map as if no key but key had ever been used.
OnlyKey(bs, key) == [k \in DOMAIN bs \cap {key} |-> bs[k]]

\* C5: a check on one key changes neither the token level nor the existence
\* of any other key's bucket, and its outcome is the one it would have had
\* had no other key ever been used.
PerKeyIndependence ==
    [][\A key \in Keys :
          CheckRateLimit(key) =>
              /\ OthersUntouched(key)
              /\ enabled =>
                    /\ result'.allowed = CheckOutcome(OnlyKey(buckets, key), key, now).allowed
                    /\ result'.headers = CheckOutcome(OnlyKey(buckets, key), key, now).headers]_vars

\* The first check on a key, admitted, while the other key is exhausted.
PerKeyIndependenceWitness ==
    /\ enabled
    /\ result.op = "check"
    /\ result.allowed
    /\ seen[result.key].calls = 1
    /\ \E other \in DOMAIN buckets \ {result.key} :
          /\ buckets[other].tokens < TokenScale
          /\ seen[other].rejectedAt = now

\* C6: a disabled limiter answers every check (True, {}) and leaves the
\* bucket map as it was; it never holds a bucket.
DisabledBypass ==
    /\ [](~enabled => buckets = EmptyMap)
    /\ [][\A key \in Keys :
            (~enabled /\ CheckRateLimit(key)) =>
                /\ result'.allowed
                /\ result'.headers = NoHeaders
                /\ buckets' = buckets]_vars

\* A check answered by a disabled limiter whose quota is zero.
DisabledBypassWitness ==
    /\ ~enabled
    /\ requests_per_minute = 0
    /\ result.op = "check"
    /\ result.allowed
    /\ result.headers = NoHeaders
    /\ buckets = EmptyMap

\* C7: after reset(key), and for every key after reset(), the next check on
\* the key meets a fresh bucket at full capacity, whatever the key's level was
\* before: it is admitted exactly when the burst size is at least 1 and leaves
\* the bucket one token below capacity.
ResetRestoresCapacity ==
    [][/\ \A arg \in Optional(Keys) :
            Reset(arg) => \A key \in ResetTargets(arg) :
                              key \notin DOMAIN buckets' /\ key \in DOMAIN discarded'
       /\ \A key \in Keys :
            key \in DOMAIN discarded => key \notin DOMAIN buckets
       /\ \A key \in Keys :
            (enabled /\ CheckRateLimit(key) /\ key \in DOMAIN discarded) =>
                /\ result'.allowed <=> burst_size >= 1
                /\ buckets'[key].tokens = Max(burst_size - 1, 0) * TokenScale
                /\ result'.headers["X-RateLimit-Remaining"] = Str(Max(burst_size - 1, 0))]_vars

\* The first check after a reset that discarded an exhausted bucket of a
\* limiter that never refills: admitted.
ResetRestoresCapacityWitness ==
    /\ enabled
    /\ requests_per_minute = 0
    /\ result.op = "check"
    /\ result.allowed
    /\ result.replaced = "exhausted"
    /\ buckets[result.key].tokens = (burst_size - 1) * TokenScale

\* C8 as claimed: reset with a key argument, whatever the key string, leaves
\* the buckets of all other keys as they were.
ResetKeyLeavesOthers ==
    [][\A key \in Keys : Reset(Some(key)) => OthersUntouched(key)]_vars

\* C9 as claimed: with requests_per_minute = 0 an enabled limiter rejects
\* every check, the first included, each with Retry-After = 86400.
ZeroRpmRejectsEvery ==
    (enabled /\ requests_per_minute = 0 /\ result.op = "check") =>
        /\ ~result.allowed
        /\ result.headers["Retry-After"] = Str(DayFallback)

\* C9 amended: with requests_per_minute = 0 an enabled limiter admits the
\* first burst_size checks on a key's bucket and rejects every later one,
\* however much time passes (every check, the first included, when the burst
\* size is 0 or unspecified); each rejection carries Retry-After = 86400.
ZeroRpmRejectsAfterBurst ==
    (enabled /\ requests_per_minute = 0 /\ result.op = "check") =>
        /\ result.allowed <=> seen[result.key].calls <= burst_size
        /\ burst_size = 0 => ~result.allowed
        /\ ~result.allowed => result.headers["Retry-After"] = Str(DayFallback)

\* A rejection by a limiter that never refills, after its burst was admitted
\* and time has passed.
ZeroRpmRejectsAfterBurstWitness ==
    /\ enabled
    /\ requests_per_minute = 0
    /\ burst_size >= 1
    /\ result.op = "check"
    /\ ~result.allowed
    /\ seen[result.key].created < now
    /\ result.headers["Retry-After"] = Str(DayFallback)

\* C10: recovery after exhaustion.  At 60 requests per minute a key left
\* with no token regains exactly one token in one second without checks, so
\* the check then made is admitted and leaves the bucket empty, and a check
\* made with less than one token and no time passed is rejected; in general
\* the first check made 1/refillRate seconds or more after a rejection, with
\* no admission in between, is admitted.
RecoveryAfterExhaustion ==
    [][\A key \in Keys :
          (enabled /\ CheckRateLimit(key) /\ key \in DOMAIN buckets) =>
              /\ (/\ requests_per_minute = 60
                  /\ buckets[key].tokens = 0
                  /\ now - buckets[key].last_refill = 1) =>
                     /\ result'.allowed
                     /\ buckets'[key].tokens = 0
              /\ (/\ buckets[key].tokens < TokenScale
                  /\ now = buckets[key].last_refill) => ~result'.allowed
              /\ (/\ refill_rate > 0
                  /\ seen[key].rejectedAt >= 0
                  /\ (now - seen[key].rejectedAt) * refill_rate >= TokenScale) =>
                     result'.allowed]_vars

\* At 60 requests per minute and burst size B >= 2, the (B+2)-th check on a
\* bucket one second old, admitted and leaving no token: B + 1 tokens ever
\* existed and all are spent, so one of the B + 2 checks was rejected, and it
\* was at the bucket's first second (a rejection in this second would have
\* left less than one token for this check): B admitted, the (B+1)-th
\* rejected, one second, this check admitted.
RecoveryAfterExhaustionWitness ==
    /\ enabled
    /\ requests_per_minute = 60
    /\ burst_size >= 2
    /\ result.op = "check"
    /\ result.allowed
    /\ seen[result.key].created = now - 1
    /\ seen[result.key].calls = burst_size + 2
    /\ buckets[result.key].tokens = 0

(***************************************************************************)
(* RateLimiter used by several threads at once.  The class takes no lock,  *)
(* so a thread may be preempted between any two of its reads and writes    *)
(* of RateLimiter.buckets and of a bucket's fields.  Each action below is  *)
(* one dict operation (in, [], pop, clear, item assignment: atomic in      *)
(* CPython), or the reads a statement makes of a bucket, or the writes it  *)
(* makes; reads and writes of one statement that a preemption could also   *)
(* separate are taken together, which only removes interleavings.          *)
(***************************************************************************)
seqVars == <<result, seen, discarded>>

ThreadInit ==
    /\ now = 0
    /\ tb = TokenBucketInit(1, 0, 0)
    /\ tbRet = [op |-> "init"]
    /\ \E rpm \in ThreadRpmValues, burst \in 1..MaxThreadBurst, en \in BOOLEAN :
          RateLimiterInit(rpm, Some(burst), en)
    /\ result = [op |-> "init"]
    /\ seen = EmptyMap
    /\ discarded = EmptyMap
    /\ NoThreads
    /\ NoRedis
    /\ NoApp

Goto(t, label) == pc' = [pc EXCEPT ![t] = label]

\* check_rate_limit(key) is entered: the enabled test, and the return if disabled.
Call(t, key) ==
    /\ pc[t] = "idle"
    /\ started < MaxStarted
    /\ started' = started + 1
    /\ IF Bypass
       THEN /\ outcome' = [outcome EXCEPT ![t] =
                              [kind |-> "returned", key |-> key, allowed |-> TRUE,
                               headers |-> NoHeaders]]
            /\ UNCHANGED <<pc, frame>>
       ELSE /\ outcome' = [outcome EXCEPT ![t] = [kind |-> "none"]]
            /\ frame' = [frame EXCEPT ![t] = [NoFrame EXCEPT !.key = key]]
            /\ Goto(t, "get_test")
    /\ UNCHANGED <<now, redisVars, appVars, bucketVars, configVars, buckets, seqVars, heap, resets, admitted>>

\* _get_bucket: if key not in self.buckets
GetTest(t) ==
    /\ pc[t] = "get_test"
    /\ Goto(t, IF frame[t].key \notin DOMAIN buckets THEN "get_create" ELSE "get_return")
    /\ UNCHANGED <<now, redisVars, appVars, bucketVars, configVars, buckets, seqVars, heap, frame, outcome,
                   started, resets, admitted>>

\* _get_bucket: self.buckets[key] = TokenBucket(self.burst_size, self.refill_rate)
GetCreate(t) ==
    /\ pc[t] = "get_create"
    /\ heap' = Append(heap, TokenBucketInit(burst_size, refill_rate, now))
    /\ buckets' = MapPut(buckets, frame[t].key, Len(heap) + 1)
    /\ Goto(t, "get_return")
    /\ UNCHANGED <<now, redisVars, appVars, bucketVars, configVars, seqVars, frame, outcome,
                   started, resets, admitted>>

\* _get_bucket: return self.buckets[key], which raises KeyError without the key
GetReturn(t) ==
    /\ pc[t] = "get_return"
    /\ IF frame[t].key \notin DOMAIN buckets
       THEN /\ outcome' = [outcome EXCEPT ![t] =
                              [kind |-> "KeyError", key |-> frame[t].key]]
            /\ frame' = [frame EXCEPT ![t] = NoFrame]
            /\ Goto(t, "idle")
       ELSE /\ frame' = [frame EXCEPT ![t].bucket = buckets[frame[t].key],
                                      ![t].caller = "consume"]
            /\ Goto(t, "refill_load")
            /\ UNCHANGED outcome
    /\ UNCHANGED <<now, redisVars, appVars, bucketVars, configVars, buckets, seqVars, heap,
                   started, resets, admitted>>

\* _refill: now = time.time(); elapsed = now - self.last_refill;
\* tokens_to_add = elapsed * self.refill_rate; and
\* min(self.capacity, self.tokens + tokens_to_add) is evaluated
RefillLoad(t) ==
    /\ pc[t] = "refill_load"
    /\ frame' = [frame EXCEPT
                    ![t].now = now,
                    ![t].val = Refill(heap[frame[t].bucket], now).tokens]
    /\ Goto(t, "refill_store")
    /\ UNCHANGED <<now, redisVars, appVars, bucketVars, configVars, buckets, seqVars, heap, outcome,
                   started, resets, admitted>>

\* _refill: self.tokens = (the value evaluated); self.last_refill = now; and
\* the return to the method that called
RefillStore(t) ==
    /\ pc[t] = "refill_store"
    /\ heap' = [heap EXCEPT ![frame[t].bucket].tokens = frame[t].val,
                            ![frame[t].bucket].last_refill = frame[t].now]
    /\ Goto(t, CASE frame[t].caller = "consume" -> "consume_test"
                 [] frame[t].caller = "get_tokens" -> "get_tokens_ret"
                 [] frame[t].caller = "time_until_tokens" -> "time_until_ret")
    /\ UNCHANGED <<now, redisVars, appVars, bucketVars, configVars, buckets, seqVars, frame, outcome,
                   started, resets, admitted>>

\* consume: if self.tokens >= tokens, else return False and on to get_tokens()
ConsumeTest(t) ==
    /\ pc[t] = "consume_test"
    /\ IF heap[frame[t].bucket].tokens >= TokenScale
       THEN /\ Goto(t, "consume_load")
            /\ UNCHANGED frame
       ELSE /\ frame' = [frame EXCEPT ![t].allowed = FALSE,
                                      ![t].caller = "get_tokens"]
            /\ Goto(t, "refill_load")
    /\ UNCHANGED <<now, redisVars, appVars, bucketVars, configVars, buckets, seqVars, heap, outcome,
                   started, resets, admitted>>

\* consume: self.tokens - tokens is evaluated
ConsumeLoad(t) ==
    /\ pc[t] = "consume_load"
    /\ frame' = [frame EXCEPT ![t].val = heap[frame[t].bucket].tokens - TokenScale]
    /\ Goto(t, "consume_store")
    /\ UNCHANGED <<now, redisVars, appVars, bucketVars, configVars, buckets, seqVars, heap, outcome,
                   started, resets, admitted>>

\* consume: self.tokens = (the value evaluated); return True and on to get_tokens()
ConsumeStore(t) ==
    /\ pc[t] = "consume_store"
    /\ heap' = [heap EXCEPT ![frame[t].bucket].tokens = frame[t].val]
    /\ frame' = [frame EXCEPT ![t].allowed = TRUE, ![t].caller = "get_tokens"]
    /\ Goto(t, "refill_load")
    /\ UNCHANGED <<now, redisVars, appVars, bucketVars, configVars, buckets, seqVars, outcome,
                   started, resets, admitted>>

\* get_tokens: return self.tokens; remaining = int(...), and on to
\* time_until_tokens(1)
GetTokensRet(t) ==
    /\ pc[t] = "get_tokens_ret"
    /\ frame' = [frame EXCEPT
                    ![t].remaining = PyInt(heap[frame[t].bucket].tokens, TokenScale),
                    ![t].caller = "time_until_tokens"]
    /\ Goto(t, "refill_load")
    /\ UNCHANGED <<now, redisVars, appVars, bucketVars, configVars, buckets, seqVars, heap, outcome,
                   started, resets, admitted>>

\* time_until_tokens after its refill, the headers, and the return
TimeUntilRet(t) ==
    /\ pc[t] = "time_until_ret"
    /\ outcome' = [outcome EXCEPT ![t] =
                      [kind |-> "returned", key |-> frame[t].key,
                       allowed |-> frame[t].allowed,
                       headers |-> Headers(frame[t].allowed, frame[t].remaining,
                                           TimeUntil(heap[frame[t].bucket].tokens,
                                                     heap[frame[t].bucket].refill_rate, 1),
                                           now)]]
    /\ admitted' = IF frame[t].allowed
                   THEN [admitted EXCEPT ![frame[t].key] = @ + 1]
                   ELSE admitted
    /\ frame' = [frame EXCEPT ![t] = NoFrame]
    /\ Goto(t, "idle")
    /\ UNCHANGED <<now, redisVars, appVars, bucketVars, configVars, buckets, seqVars, heap, started, resets>>

\* reset(arg), by any thread: one dict operation.
ThreadReset(arg) ==
    /\ resets < MaxResets
    /\ resets' = resets + 1
    /\ buckets' = IF Truthy(arg) THEN MapPop(buckets, arg[1]) ELSE EmptyMap
    /\ UNCHANGED <<now, redisVars, appVars, bucketVars, configVars, seqVars, heap, pc, frame, outcome,
                   started, admitted>>

\* The clock, while threads run.
ThreadTick == now < MaxThreadTime /\ Tick

ThreadNext ==
    \/ ThreadTick
    \/ \E t \in Threads, key \in Keys : Call(t, key)
    \/ \E t \in Threads : GetTest(t)
    \/ \E t \in Threads : GetCreate(t)
    \/ \E t \in Threads : GetReturn(t)
    \/ \E t \in Threads : RefillLoad(t)
    \/ \E t \in Threads : RefillStore(t)
    \/ \E t \in Threads : ConsumeTest(t)
    \/ \E t \in Threads : ConsumeLoad(t)
    \/ \E t \in Threads : ConsumeStore(t)
    \/ \E t \in Threads : GetTokensRet(t)
    \/ \E t \in Threads : TimeUntilRet(t)
    \/ \E arg \in Optional(Keys) : ThreadReset(arg)

SpecThreads == ThreadInit /\ [][ThreadNext]_vars

\* C3 as claimed: concurrent checks on one key never consume the same token:
\* with B whole tokens, no refill and no reset, under every interleaving at
\* most B checks on the key are admitted.
NoTokenSpentTwice ==
    (enabled /\ refill_rate = 0 /\ resets = 0) =>
        \A key \in Keys : admitted[key] <= burst_size

\* C4 as claimed: under every interleaving with a reset, a check never ends
\* in an error.
CheckSurvivesReset ==
    \A t \in Threads : outcome[t].kind /= "KeyError"

(***************************************************************************)
(* TokenBucket, method by method (specification SpecBucket).               *)
(***************************************************************************)
\* The level a refill at the clock value t brings the stored level to,
\* written from the stored fields.
RefilledLevel(b, t) ==
    Min(b.capacity * TokenScale, b.tokens + (t - b.last_refill) * b.refill_rate)

\* C11: consume(n), n positive, refills first; when the refilled level is at
\* least n (exactly n included) it returns true and lowers the level by
\* exactly n; otherwise it returns false and leaves the refilled level as it
\* is.  A step that leaves the clock alone and ends with a consume as the
\* last call is that consume.
ConsumeContract ==
    [][(tbRet'.op = "consume" /\ now' = now) =>
              LET level == RefilledLevel(tb, now)
                  n == tbRet'.n
              IN  /\ tb'.last_refill = now
                  /\ tb'.capacity = tb.capacity
                  /\ tb'.refill_rate = tb.refill_rate
                  /\ level >= n * TokenScale =>
                        tbRet'.ret = TRUE /\ tb'.tokens = level - n * TokenScale
                  /\ level < n * TokenScale =>
                        tbRet'.ret = FALSE /\ tb'.tokens = level]_vars

\* A consume(2) that found exactly 2 tokens after a refill over elapsed time.
ConsumeContractWitness ==
    /\ tbRet.op = "consume"
    /\ tbRet.n = 2
    /\ tbRet.ret = TRUE
    /\ tb.tokens = 0
    /\ tb.last_refill > 0
    /\ tb.capacity > 2

\* C12: get_tokens() on a bucket that held T tokens t seconds ago, with no
\* consumption since, observes min(capacity, T + t * refill_rate) and takes
\* nothing from it; with zero elapsed time it changes nothing; and looking
\* again at any clock values in between does not change what a later look
\* observes.
RefillObserved ==
    [][(tbRet'.op = "get_tokens" /\ now' = now) =>
          /\ tbRet'.ret = RefilledLevel(tb, now)
          /\ tb' = [tb EXCEPT !.tokens = tbRet'.ret, !.last_refill = now]
          /\ tb.last_refill = now => tb' = tb
          /\ \A t1 \in now..MaxTime : \A t2 \in t1..MaxTime :
                GetTokens(GetTokens(tb', t1).bucket, t2).ret =
                    Min(tb.capacity * TokenScale,
                        tbRet'.ret + (t2 - now) * tb.refill_rate)]_vars

\* A get_tokens that observed a fractional level below the capacity after
\* time passed.
RefillObservedWitness ==
    /\ tbRet.op = "get_tokens"
    /\ tbRet.ret % TokenScale /= 0
    /\ tbRet.ret < tb.capacity * TokenScale
    /\ tb.tokens = tbRet.ret
    /\ tb.last_refill > 0

\* C13 as claimed: time_until_tokens(n) returns 0 whenever the refilled level
\* is at least n; otherwise, with a positive refill rate, it returns v with
\* tokens + v * refill_rate = n, so that waiting v seconds makes consume(n)
\* succeed; with refill rate 0 it returns the "never" sentinel.  The wait is
\* tried at the first whole second that is at least v after the call.
TimeUntilTokensContract ==
    [][(tbRet'.op = "time_until_tokens" /\ now' = now) =>
          LET level == RefilledLevel(tb, now)
              n == tbRet'.n
              v == tbRet'.ret
              waited == now + (v.num + v.den - 1) \div v.den
          IN  /\ level >= n * TokenScale => ~v.inf /\ v.num = 0
              /\ (level < n * TokenScale /\ tb.refill_rate > 0) =>
                    /\ ~v.inf
                    /\ level * v.den + v.num * tb.refill_rate
                           = n * TokenScale * v.den
                    /\ Consume(tb', n, waited).ret = TRUE
              /\ (level < n * TokenScale /\ tb.refill_rate = 0) => v.inf]_vars

(***************************************************************************)
(* The headers of check_rate_limit (specification Spec).                   *)
(***************************************************************************)
\* C14: the header map of a check on an enabled limiter holds exactly
\* X-RateLimit-Limit, X-RateLimit-Remaining and X-RateLimit-Reset, plus
\* Retry-After if and only if the check was rejected.
HeaderNames ==
    (enabled /\ result.op = "check") =>
        DOMAIN result.headers =
            IF result.allowed
            THEN {"X-RateLimit-Limit", "X-RateLimit-Remaining", "X-RateLimit-Reset"}
            ELSE {"X-RateLimit-Limit", "X-RateLimit-Remaining", "X-RateLimit-Reset",
                  "Retry-After"}

\* A rejected check, four headers, on a key whose bucket refills.
HeaderNamesWitness ==
    /\ enabled
    /\ result.op = "check"
    /\ ~result.allowed
    /\ Cardinality(DOMAIN result.headers) = 4
    /\ refill_rate > 0

\* What the bucket of the key last checked still lacks for one token, in
\* 1/TokenScale token: time_until_tokens(1) is this over refill_rate.
Needed == TokenScale - buckets[result.key].tokens

\* C15 as claimed: on every rejected check Retry-After is
\* ceil(time_until_tokens(1)) + 1 when the refill rate is positive, and
\* 86400 when the refill rate is 0.
RetryAfterCeiling ==
    (enabled /\ result.op = "check" /\ ~result.allowed) =>
        result.headers["Retry-After"] =
            Str(IF refill_rate = 0 THEN DayFallback
                ELSE (Needed + refill_rate - 1) \div refill_rate + 1)

\* C15, amended: on every rejected check Retry-After is time_until_tokens(1)
\* truncated to whole seconds, plus 1, when the refill rate is positive, and
\* 86400 when the refill rate is 0.
RetryAfterTruncation ==
    (enabled /\ result.op = "check" /\ ~result.allowed) =>
        result.headers["Retry-After"] =
            Str(IF refill_rate = 0 THEN DayFallback
                ELSE Needed \div refill_rate + 1)

\* A rejected check whose wait for one token is not a whole number of
\* seconds.
RetryAfterTruncationWitness ==
    /\ enabled
    /\ result.op = "check"
    /\ ~result.allowed
    /\ refill_rate > 0
    /\ Needed % refill_rate /= 0
    /\ Needed > refill_rate

\* C16: on an enabled limiter X-RateLimit-Limit is requests_per_minute and
\* X-RateLimit-Remaining is floor(max(0, t)), t the bucket's level after this
\* call's consumption attempt; it is never negative; and with no time
\* passing since the key's first check, the k-th admitted check on a key of
\* burst B reports B - k.
RemainingReported ==
    (enabled /\ result.op = "check") =>
        LET level == buckets[result.key].tokens
            remaining == result.headers["X-RateLimit-Remaining"]
        IN  /\ result.headers["X-RateLimit-Limit"] = Str(requests_per_minute)
            /\ remaining = Str(Max(0, level) \div TokenScale)
            /\ remaining[1] /= "-"
            /\ (result.allowed /\ seen[result.key].created = now) =>
                   remaining = Str(burst_size - seen[result.key].calls)

\* An admitted check, some time after the key's first, that leaves a
\* fraction of a token and reports 0.
RemainingReportedWitness ==
    /\ enabled
    /\ result.op = "check"
    /\ result.allowed
    /\ result.headers["X-RateLimit-Remaining"] = Str(0)
    /\ buckets[result.key].tokens > 0
    /\ seen[result.key].created < now

\* C17 as claimed: every bucket the limiter creates has as capacity the
\* burst size the constructor was given, for every integer value given, and
\* requests_per_minute only when none was given; its refill rate is
\* requests_per_minute / 60 tokens per second.
CapacityIsBurstGiven ==
    \A key \in DOMAIN buckets :
        /\ buckets[key].capacity =
               IF burst_size_arg = None THEN requests_per_minute
               ELSE burst_size_arg[1]
        /\ buckets[key].refill_rate * 60 = requests_per_minute * TokenScale

(***************************************************************************)
(* A TokenBucket on its own under the clock the code reads: time.time() is *)
(* the system's wall clock, which an administrator or a time service can   *)
(* set back between two calls.                                             *)
(***************************************************************************)
ClockStepsBack ==
    /\ now > 0
    /\ now' = now - 1
    /\ UNCHANGED <<bucketVars, limiterVars, threadVars, redisVars, appVars>>

WallClockNext ==
    \/ BucketNext
    \/ ClockStepsBack

SpecWallClock == BucketInit /\ [][WallClockNext]_vars

\* C18 as claimed: the bucket's time arithmetic is immune to wall-clock
\* adjustments: when the clock is set back between two calls, the refill of
\* the later call never lowers the token level and never drives it below 0.
\* The level a call's refill produced is the level the call leaves, plus
\* what a successful consume took.
RefillNeverLowers ==
    [][(now' = now) =>
          LET taken == IF tbRet'.op = "consume"
                       THEN (IF tbRet'.ret THEN tbRet'.n * TokenScale ELSE 0)
                       ELSE 0
              refilled == tb'.tokens + taken
          IN  /\ refilled >= tb.tokens
              /\ refilled >= 0]_vars

(***************************************************************************)
(* RedisRateLimiter, one caller at a time.  The sorted set of a key maps   *)
(* its members to their scores; the member of a check is str(now), and     *)
(* str is one-to-one on clock values.  A key whose expiry has fallen due   *)
(* is gone from the store.  The clock moves by half a window between       *)
(* calls.                                                                  *)
(***************************************************************************)
RedisRpmValues == {0, 1, 2}

\* The keys check_rate_limit_redis is called with directly.
RedisKeys == {"k1"}

\* What request.state.api_key and request.client.host can be.
ApiKeys == {None, Some(""), Some("k1")}
Clients == {None, Some("10.0.0.1")}

\* How pipe.execute() can end: it returns the replies; the connection fails
\* before the server has executed anything; or the server executes the
\* commands and the reply is lost.
Faults == {"none", "refused", "reply_lost"}

\* redis_key = f"rate_limit:{key}"
RedisKey(key) == "rate_limit:" \o key

\* The store at clock value t: the keys whose expiry has not fallen due.
Live(db, t) == [k \in {j \in DOMAIN db : db[j].expire_at > t} |-> db[k]]

ZRemRangeByScore(z, lo, hi) ==
    [m \in {x \in DOMAIN z : ~(lo <= z[x] /\ z[x] <= hi)} |-> z[m]]

ZCard(z) == Cardinality(DOMAIN z)

ZAdd(z, member, score) == MapPut(z, member, score)

\* The four commands of the pipeline on redis key rk at clock value t: the
\* store afterwards and the reply to ZCARD (results[1]).
Pipeline(db, rk, t) ==
    LET live == Live(db, t)
        z0 == IF rk \in DOMAIN live THEN live[rk].zset ELSE EmptyMap
        z1 == ZRemRangeByScore(z0, 0, t - Window)
        z2 == ZAdd(z1, Str(t), t)
    IN  [db |-> MapPut(live, rk, [zset |-> z2, expire_at |-> t + Window]),
         current_count |-> ZCard(z1)]

RedisHeaders(allowed, current_count, t) ==
    LET remaining == Max(0, requests_per_minute - current_count - 1)
        reset_time == PyInt(t + Window, 1)
        names == {"X-RateLimit-Limit", "X-RateLimit-Remaining", "X-RateLimit-Reset"}
                     \cup (IF allowed THEN {} ELSE {"Retry-After"})
    IN  [h \in names |->
            CASE h = "X-RateLimit-Limit" -> Str(requests_per_minute)
              [] h = "X-RateLimit-Remaining" -> Str(remaining)
              [] h = "X-RateLimit-Reset" -> Str(reset_time)
              [] h = "Retry-After" -> Str(Window)]

\* Faulty variant: a failure of the store is swallowed and the request let
\* through.
CheckRedisOutcomeFailOpen(db, key, t, fault) ==
    LET p == Pipeline(db, RedisKey(key), t)
        allowed == p.current_count < requests_per_minute
    IN  IF ~enabled
        THEN [db |-> db, raised |-> "",
              decision |-> Some([allowed |-> TRUE, headers |-> NoHeaders])]
        ELSE IF fault = "none"
        THEN [db |-> p.db, raised |-> "",
              decision |-> Some([allowed |-> allowed,
                                 headers |-> RedisHeaders(allowed, p.current_count, t)])]
        ELSE [db |-> IF fault = "reply_lost" THEN p.db ELSE db,
              raised |-> "",
              decision |-> Some([allowed |-> TRUE, headers |-> NoHeaders])]

\* How a call of check_rate_limit_redis(key) ends at clock value t on store
\* db when pipe.execute() ends as fault says: the store afterwards, and
\* either the decision returned or the exception of the store, which nothing
\* in the method catches.
CheckRedisOutcome(db, key, t, fault) ==
    LET p == Pipeline(db, RedisKey(key), t)
        allowed == p.current_count < requests_per_minute
    IN  IF ~enabled
        THEN [db |-> db, raised |-> "",
              decision |-> Some([allowed |-> TRUE, headers |-> NoHeaders])]
        ELSE IF fault = "none"
        THEN [db |-> p.db, raised |-> "",
              decision |-> Some([allowed |-> allowed,
                                 headers |-> RedisHeaders(allowed, p.current_count, t)])]
        ELSE [db |-> IF fault = "reply_lost" THEN p.db ELSE db,
              raised |-> "RedisError", decision |-> None]

RedisInit ==
    /\ now = 0
    /\ tb = TokenBucketInit(1, 0, 0)
    /\ tbRet = [op |-> "init"]
    /\ \E rpm \in RedisRpmValues, en \in BOOLEAN : RateLimiterInit(rpm, None, en)
    /\ result = [op |-> "init"]
    /\ seen = EmptyMap
    /\ discarded = EmptyMap
    /\ NoThreads
    /\ NoRedis
    /\ NoApp

RedisTick ==
    /\ now < MaxRedisTicks * (Window \div 2)
    /\ now' = now + Window \div 2
    /\ UNCHANGED <<bucketVars, limiterVars, threadVars, redisVars, appVars>>

\* await limiter.check_rate_limit_redis(key)
CheckRateLimitRedis(key, fault) ==
    LET o == CheckRedisOutcome(redis_client, key, now, fault)
    IN  /\ redis_client' = o.db
        /\ redisRet' = [op |-> "check", key |-> key, fault |-> fault,
                        raised |-> o.raised, decision |-> o.decision,
                        rate_limit_headers |-> None]
        /\ UNCHANGED <<now, bucketVars, limiterVars, threadVars, appVars>>

\* rate_limit_key of __call__: the API key when there is a non-empty one,
\* else the client's host, else "unknown".
RateLimitKey(api_key, client) ==
    IF Truthy(api_key) THEN api_key[1]
    ELSE IF client /= None THEN client[1] ELSE "unknown"

\* await limiter(request): RedisRateLimiter.__call__ on a request with the
\* given request.state.api_key and request.client.
RedisCall(api_key, client, fault) ==
    LET key == RateLimitKey(api_key, client)
        o == CheckRedisOutcome(redis_client, key, now, fault)
    IN  /\ redis_client' = IF enabled THEN o.db ELSE redis_client
        /\ redisRet' =
              IF ~enabled
              THEN [op |-> "call", key |-> "", fault |-> "none", raised |-> "",
                    decision |-> None, rate_limit_headers |-> None]
              ELSE IF o.decision = None
              THEN [op |-> "call", key |-> key, fault |-> fault,
                    raised |-> o.raised, decision |-> None,
                    rate_limit_headers |-> None]
              ELSE [op |-> "call", key |-> key, fault |-> fault,
                    raised |-> IF o.decision[1].allowed THEN ""
                               ELSE "HTTPException 429",
                    decision |-> o.decision,
                    rate_limit_headers |-> Some(o.decision[1].headers)]
        /\ UNCHANGED <<now, bucketVars, limiterVars, threadVars, appVars>>

RedisNext ==
    \/ RedisTick
    \/ \E key \in RedisKeys, fault \in Faults : CheckRateLimitRedis(key, fault)
    \/ \E api_key \in ApiKeys, client \in Clients, fault \in Faults :
          RedisCall(api_key, client, fault)

SpecRedis == RedisInit /\ [][RedisNext]_vars

\* The sorted set kept for key in store db at clock value t.
ZsetOf(db, key, t) ==
    IF RedisKey(key) \in DOMAIN Live(db, t)
    THEN Live(db, t)[RedisKey(key)].zset
    ELSE EmptyMap

\* C19 as claimed: each check of the Redis limiter removes the entries older
\* than now - 60 s, counts the remainder, and adds an entry timestamped now
\* only if the count is below the limit; a rejected check adds no entry.
\* Entries exactly 60 s old are left to either side.
RedisAddsOnlyWhenAdmitted ==
    [][(now' = now /\ enabled /\ redisRet'.op \in {"check", "call"}
            /\ redisRet'.decision /= None) =>
          LET before == ZsetOf(redis_client, redisRet'.key, now)
              after == ZsetOf(redis_client', redisRet'.key, now)
              older == {m \in DOMAIN before : before[m] < now - Window}
              newer == {m \in DOMAIN before : before[m] > now - Window}
              added == DOMAIN after \ DOMAIN before
              allowed == redisRet'.decision[1].allowed
          IN  /\ older \cap DOMAIN after = {}
              /\ newer \subseteq DOMAIN after
              /\ allowed <=>
                    Cardinality(DOMAIN after \ added) < requests_per_minute
              /\ allowed => Str(now) \in DOMAIN after
              /\ ~allowed => added = {}]_vars

\* C20: a failure of the store during a check always reaches the caller as
\* the store's exception: check_rate_limit_redis returns no decision, and
\* __call__ neither raises HTTP 429 nor returns (which would admit the
\* request), and leaves no rate-limit headers on the request.
StoreFaultPropagates ==
    (enabled /\ redisRet.op \in {"check", "call"} /\ redisRet.fault /= "none") =>
        /\ redisRet.raised = "RedisError"
        /\ redisRet.decision = None
        /\ redisRet.rate_limit_headers = None

\* A call of the gate on a key already at its limit whose reply was lost
\* after the store had recorded the request.
StoreFaultPropagatesWitness ==
    /\ enabled
    /\ redisRet.op = "call"
    /\ redisRet.fault = "reply_lost"
    /\ redisRet.raised = "RedisError"
    /\ requests_per_minute > 0
    /\ ZCard(ZsetOf(redis_client, redisRet.key, now)) > requests_per_minute

(***************************************************************************)
(* RateLimiter.__call__, the FastAPI dependency, one request at a time.    *)
(***************************************************************************)
NoException == <<>>

\* f"Rate limit exceeded. Try again in {headers.get('Retry-After', 'a few')}
\* seconds.": the text before the value, the value, the text after it.
Detail(headers) ==
    <<"Rate limit exceeded. Try again in ",
      IF "Retry-After" \in DOMAIN headers THEN headers["Retry-After"]
      ELSE <<"a", " ", "f", "e", "w">>,
      " seconds.">>

\* Faulty variant: the exception is raised before the headers are stored on
\* the request.
GateOutcomeRaiseFirst(allowed, headers) ==
    IF allowed
    THEN [rate_limit_headers |-> Some(headers), raised |-> NoException]
    ELSE [rate_limit_headers |-> None,
          raised |-> Some([status_code |-> 429, detail |-> Detail(headers),
                           headers |-> headers])]

\* What __call__ does with the decision of check_rate_limit: what it stores
\* in request.state.rate_limit_headers and what it raises.
GateOutcome(allowed, headers) ==
    [rate_limit_headers |-> Some(headers),
     raised |-> IF allowed THEN NoException
                ELSE Some([status_code |-> 429, detail |-> Detail(headers),
                           headers |-> headers])]

GateInit ==
    /\ now = 0
    /\ tb = TokenBucketInit(1, 0, 0)
    /\ tbRet = [op |-> "init"]
    /\ \E rpm \in RpmValues, burst \in 1..MaxThreadBurst, en \in BOOLEAN :
          RateLimiterInit(rpm, Some(burst), en)
    /\ result = [op |-> "init"]
    /\ seen = EmptyMap
    /\ discarded = EmptyMap
    /\ NoThreads
    /\ NoRedis
    /\ NoApp

\* await limiter(request) on a request with the given request.state.api_key
\* and request.client.
GateCall(api_key, client) ==
    LET key == RateLimitKey(api_key, client)
        o == CheckOutcome(buckets, key, now)
        g == GateOutcome(o.allowed, o.headers)
    IN  /\ buckets' = IF enabled THEN o.buckets ELSE buckets
        /\ result' =
              IF ~enabled
              THEN [op |-> "call", key |-> "", checked |-> FALSE,
                    allowed |-> TRUE, headers |-> NoHeaders,
                    rate_limit_headers |-> None, raised |-> NoException]
              ELSE [op |-> "call", key |-> key, checked |-> TRUE,
                    allowed |-> o.allowed, headers |-> o.headers,
                    rate_limit_headers |-> g.rate_limit_headers,
                    raised |-> g.raised]
        /\ UNCHANGED <<now, bucketVars, configVars, seen, discarded,
                       threadVars, redisVars, appVars>>

GateNext ==
    \/ Tick
    \/ \E api_key \in ApiKeys, client \in Clients : GateCall(api_key, client)

SpecGate == GateInit /\ [][GateNext]_vars

\* C21: on an enabled limiter the gate stores the headers of the check on
\* the request at every call, rejected ones included; a rejected check makes
\* it raise HTTP 429 with those same headers, Retry-After among them, and
\* the detail "Rate limit exceeded. Try again in N seconds." with N the
\* Retry-After value; an allowed check makes it raise nothing.
GateOutcomeContract ==
    (enabled /\ result.op = "call") =>
        /\ result.checked
        /\ result.rate_limit_headers = Some(result.headers)
        /\ result.allowed => result.raised = NoException
        /\ ~result.allowed =>
              /\ result.raised /= NoException
              /\ result.raised[1].status_code = 429
              /\ result.raised[1].headers = result.headers
              /\ "Retry-After" \in DOMAIN result.raised[1].headers
              /\ result.raised[1].detail =
                     <<"Rate limit exceeded. Try again in ",
                       result.headers["Retry-After"], " seconds.">>

\* A request with no API key and no client address, rejected with 429 on the
\* key "unknown" whose bucket refills.
GateOutcomeContractWitness ==
    /\ enabled
    /\ result.op = "call"
    /\ result.key = "unknown"
    /\ ~result.allowed
    /\ result.raised /= NoException
    /\ refill_rate > 0
    /\ result.rate_limit_headers /= None

(***************************************************************************)
(* run_ml_pipeline.  Each step is a call that either returns a value or    *)
(* raises an Exception; the pipeline record keeps where the function is,   *)
(* the steps it has called so far, what they returned, and its result.     *)
(***************************************************************************)
\* The limiters and the standalone bucket are not in use.
NoLimiters ==
    /\ now = 0
    /\ tb = TokenBucketInit(1, 0, 0)
    /\ tbRet = [op |-> "init"]
    /\ NoLimiter
    /\ NoThreads
    /\ NoRedis

RawPaths == {"raw/a.parquet", "raw/b.parquet"}
MapeValues == {10, 20, 30}
CoverageValues == {70, 80, 90}
BentoTags == {"pokewatch_service:abc123", "pokewatch_service:latest"}

\* A step that raised.
Raised == "raised"

StepOrder == <<"collect", "preprocess", "train", "validate", "build">>

NoMetrics == [mape |-> 0, coverage_rate |-> 0]

PipelineIdle ==
    [pc |-> "idle", runs |-> 0, called |-> <<>>, failed |-> "",
     raw_data_path |-> "", features_path |-> "", model_path |-> "",
     metrics |-> NoMetrics, is_valid |-> FALSE, ret |-> None]

PipelineInit ==
    /\ NoLimiters
    /\ pipeline = PipelineIdle
    /\ NoAuth
    /\ NoStack
    /\ NoModel
    /\ NoHistory

\* The function is entered and imports the steps; a failed import raises
\* inside the try.
PipelineStart(imported) ==
    /\ pipeline.pc \in {"idle", "done"}
    /\ pipeline.runs < MaxRuns
    /\ pipeline' = [PipelineIdle EXCEPT
                       !.runs = pipeline.runs + 1,
                       !.pc = IF imported THEN "collect" ELSE "done",
                       !.failed = IF imported THEN "" ELSE "import"]
    /\ UNCHANGED <<now, bucketVars, limiterVars, threadVars, redisVars,
                   auth, stack, model, admittedAt>>

\* A step raised: the except clause returns None.
StepRaised(name) ==
    [pipeline EXCEPT !.called = Append(pipeline.called, name),
                     !.failed = name, !.pc = "done", !.ret = None]

CollectDataStep(returned) ==
    /\ pipeline.pc = "collect"
    /\ pipeline' = IF returned = Raised THEN StepRaised("collect")
                   ELSE [pipeline EXCEPT !.called = Append(pipeline.called, "collect"),
                                         !.raw_data_path = returned,
                                         !.pc = "preprocess"]
    /\ UNCHANGED <<now, bucketVars, limiterVars, threadVars, redisVars,
                   auth, stack, model, admittedAt>>

PreprocessDataStep(returned) ==
    /\ pipeline.pc = "preprocess"
    /\ pipeline' = IF returned = Raised THEN StepRaised("preprocess")
                   ELSE [pipeline EXCEPT !.called = Append(pipeline.called, "preprocess"),
                                         !.features_path = returned,
                                         !.pc = "train"]
    /\ UNCHANGED <<now, bucketVars, limiterVars, threadVars, redisVars,
                   auth, stack, model, admittedAt>>

TrainModelStep(raises, mape, coverage_rate) ==
    /\ pipeline.pc = "train"
    /\ pipeline' = IF raises THEN StepRaised("train")
                   ELSE [pipeline EXCEPT !.called = Append(pipeline.called, "train"),
                                         !.model_path = "models/baseline",
                                         !.metrics = [mape |-> mape,
                                                      coverage_rate |-> coverage_rate],
                                         !.pc = "validate"]
    /\ UNCHANGED <<now, bucketVars, limiterVars, threadVars, redisVars,
                   auth, stack, model, admittedAt>>

\* is_valid of validate_model_step
IsValid(metrics) ==
    metrics.mape <= MapeThreshold /\ metrics.coverage_rate >= CoverageThreshold

\* Faulty variant: the build is attempted whatever validation said.
AfterValidateAlwaysBuild(is_valid) == "build"

\* if not is_valid: return None
AfterValidate(is_valid) == IF is_valid THEN "build" ELSE "done"

ValidateModelStep ==
    /\ pipeline.pc = "validate"
    /\ pipeline' = [pipeline EXCEPT !.called = Append(pipeline.called, "validate"),
                                    !.is_valid = IsValid(pipeline.metrics),
                                    !.pc = AfterValidate(IsValid(pipeline.metrics)),
                                    !.ret = None]
    /\ UNCHANGED <<now, bucketVars, limiterVars, threadVars, redisVars,
                   auth, stack, model, admittedAt>>

\* build_bento_step(model_path, is_valid): raises ValueError when is_valid is
\* false, raises when the build script fails, else returns a tag.
BuildBentoStep(returned) ==
    /\ pipeline.pc = "build"
    /\ pipeline' = IF returned = Raised \/ ~pipeline.is_valid
                   THEN StepRaised("build")
                   ELSE [pipeline EXCEPT !.called = Append(pipeline.called, "build"),
                                         !.pc = "done", !.ret = Some(returned)]
    /\ UNCHANGED <<now, bucketVars, limiterVars, threadVars, redisVars,
                   auth, stack, model, admittedAt>>

PipelineNext ==
    \/ \E imported \in BOOLEAN : PipelineStart(imported)
    \/ \E returned \in RawPaths \cup {Raised} : CollectDataStep(returned)
    \/ \E returned \in {"processed/set.parquet", Raised} : PreprocessDataStep(returned)
    \/ \E raises \in BOOLEAN, mape \in MapeValues, coverage_rate \in CoverageValues :
          TrainModelStep(raises, mape, coverage_rate)
    \/ ValidateModelStep
    \/ \E returned \in BentoTags \cup {Raised} : BuildBentoStep(returned)

SpecPipeline == PipelineInit /\ [][PipelineNext]_vars

\* C22: run_ml_pipeline calls its steps strictly in the order collect,
\* preprocess, train, validate, build; build is called only after validation
\* returned true; when validation fails or a step raises, no later step is
\* called and the function returns None; it returns a Bento tag only when
\* all five steps succeeded.
PipelineOrder ==
    pipeline.pc /= "unused" =>
        /\ Len(pipeline.called) <= Len(StepOrder)
        /\ pipeline.called = SubSeq(StepOrder, 1, Len(pipeline.called))
        /\ (\E i \in DOMAIN pipeline.called : pipeline.called[i] = "build") =>
              pipeline.is_valid /\ IsValid(pipeline.metrics)
        /\ (pipeline.pc = "done" /\ pipeline.failed \notin {"", "import"}) =>
              /\ pipeline.ret = None
              /\ pipeline.called[Len(pipeline.called)] = pipeline.failed
        /\ (pipeline.pc = "done" /\ pipeline.failed = ""
                /\ ~IsValid(pipeline.metrics)) =>
              /\ pipeline.ret = None
              /\ pipeline.called = SubSeq(StepOrder, 1, 4)
        /\ pipeline.ret /= None =>
              /\ pipeline.pc = "done"
              /\ pipeline.failed = ""
              /\ pipeline.called = StepOrder
              /\ pipeline.ret[1] \in BentoTags

\* A run stopped by a model whose MAPE is too high, after an earlier run
\* that got further.
PipelineOrderWitness ==
    /\ pipeline.pc = "done"
    /\ pipeline.runs = 2
    /\ pipeline.failed = ""
    /\ pipeline.metrics.mape > MapeThreshold
    /\ pipeline.metrics.coverage_rate >= CoverageThreshold
    /\ pipeline.ret = None
    /\ Len(pipeline.called) = 4

(***************************************************************************)
(* APIKeyAuth and the singleton of get_api_key_auth, one call at a time.   *)
(* The auth record holds the handler (api_keys, required), whether it is   *)
(* the singleton, and the last call with its arguments and how it ended.   *)
(***************************************************************************)
AuthKeys == {"k1", "k2", "k3"}

\* The comma-separated fields the API_KEYS environment variable can hold,
\* and what str.strip() makes of each.
EnvFields == {"", " ", "k1", " k2 "}
Strip(field) ==
    CASE field = "" -> ""
      [] field = " " -> ""
      [] field = "k1" -> "k1"
      [] field = " k2 " -> "k2"

EnvKeyLists == {<<>>, <<"">>, <<"k1">>, <<" ", " k2 ">>, <<"k1", " k2 ">>}

\* The values of the AUTH_ENABLED environment variable, and .lower() of each.
AuthEnabledValues == {"true", "True", "false"}
Lower(s) == IF s = "True" THEN "true" ELSE s

SeqToSet(seq) == {seq[i] : i \in DOMAIN seq}

\* [k.strip() for k in keys_str.split(",") if k.strip()]
KeysFromEnv(fields) == {Strip(f) : f \in {g \in SeqToSet(fields) : Strip(g) /= ""}}

\* The lists of keys a caller passes to the constructor.
KeyLists == {<<>>, <<"k1">>, <<"k1", "k2">>, <<"k2", "k2">>}

NoHandler ==
    [op |-> "none", args |-> <<>>, ret |-> "", constructed |-> FALSE,
     singleton |-> FALSE, required |-> FALSE, api_keys |-> {}]

AuthInit ==
    /\ NoLimiters
    /\ NoPipeline
    /\ auth = NoHandler
    /\ NoStack
    /\ NoModel
    /\ NoHistory

\* APIKeyAuth(api_keys, required) with API_KEYS holding env_keys: the handler
\* made, or the ValueError of a required handler without keys.
Construct(api_keys, required, env_keys) ==
    LET keys == IF api_keys = None THEN KeysFromEnv(env_keys)
                ELSE SeqToSet(api_keys[1])
    IN  IF required /\ keys = {}
        THEN [constructed |-> FALSE, required |-> FALSE, api_keys |-> {},
              ret |-> "ValueError"]
        ELSE [constructed |-> TRUE, required |-> required, api_keys |-> keys,
              ret |-> ""]

\* handler = APIKeyAuth(api_keys, required), called directly.
APIKeyAuthInit(api_keys, required, env_keys) ==
    LET c == Construct(api_keys, required, env_keys)
    IN  /\ ~auth.constructed
        /\ auth' = [op |-> "__init__", args |-> <<api_keys, required>>,
                    ret |-> c.ret, constructed |-> c.constructed,
                    singleton |-> FALSE, required |-> c.required,
                    api_keys |-> c.api_keys]
        /\ UNCHANGED <<now, bucketVars, limiterVars, threadVars, redisVars,
                       pipeline, stack, model, admittedAt>>

\* get_api_key_auth(required): creates the singleton from the environment
\* when there is none, then overrides required when it is given.
GetApiKeyAuth(required, env_enabled, env_keys) ==
    LET c == IF auth.constructed
             THEN [constructed |-> TRUE, required |-> auth.required,
                   api_keys |-> auth.api_keys, ret |-> ""]
             ELSE Construct(None, Lower(env_enabled) = "true", env_keys)
    IN  /\ auth.constructed => auth.singleton
        /\ auth' = [op |-> "get_api_key_auth", args |-> <<required>>,
                    ret |-> c.ret, constructed |-> c.constructed,
                    singleton |-> c.constructed,
                    required |-> IF c.constructed /\ required /= None
                                 THEN required[1] ELSE c.required,
                    api_keys |-> c.api_keys]
        /\ UNCHANGED <<now, bucketVars, limiterVars, threadVars, redisVars,
                       pipeline, stack, model, admittedAt>>

\* self.api_keys.add(api_key)
SetAdd(keys, api_key) == keys \cup {api_key}

\* self.api_keys.discard(api_key)
SetDiscard(keys, api_key) == keys \ {api_key}

\* Faulty variant: the new key is added first and the old one removed after.
RotateAddFirst(keys, old_key, new_key) == SetDiscard(SetAdd(keys, new_key), old_key)

\* self.remove_key(old_key); self.add_key(new_key)
Rotate(keys, old_key, new_key) == SetAdd(SetDiscard(keys, old_key), new_key)

AddKey(api_key) ==
    /\ auth.constructed
    /\ auth' = [auth EXCEPT !.op = "add_key", !.args = <<api_key>>, !.ret = "",
                            !.api_keys = SetAdd(auth.api_keys, api_key)]
    /\ UNCHANGED <<now, bucketVars, limiterVars, threadVars, redisVars,
                   pipeline, stack, model, admittedAt>>

RemoveKey(api_key) ==
    /\ auth.constructed
    /\ auth' = [auth EXCEPT !.op = "remove_key", !.args = <<api_key>>, !.ret = "",
                            !.api_keys = SetDiscard(auth.api_keys, api_key)]
    /\ UNCHANGED <<now, bucketVars, limiterVars, threadVars, redisVars,
                   pipeline, stack, model, admittedAt>>

RotateKey(old_key, new_key) ==
    /\ auth.constructed
    /\ auth' = [auth EXCEPT !.op = "rotate_key", !.args = <<old_key, new_key>>,
                            !.ret = "",
                            !.api_keys = Rotate(auth.api_keys, old_key, new_key)]
    /\ UNCHANGED <<now, bucketVars, limiterVars, threadVars, redisVars,
                   pipeline, stack, model, admittedAt>>

\* validate(api_key)
ValidateKey(h, api_key) ==
    IF ~h.required THEN TRUE
    ELSE IF api_key = None THEN FALSE
    ELSE api_key[1] \in h.api_keys

Validate(api_key) ==
    /\ auth.constructed
    /\ auth' = [auth EXCEPT !.op = "validate", !.args = <<api_key>>,
                            !.ret = IF ValidateKey(auth, api_key) THEN "True"
                                    ELSE "False"]
    /\ UNCHANGED <<now, bucketVars, limiterVars, threadVars, redisVars,
                   pipeline, stack, model, admittedAt>>

AuthNext ==
    \/ \E api_keys \in Optional(KeyLists), required \in BOOLEAN,
          env_keys \in EnvKeyLists :
          APIKeyAuthInit(api_keys, required, env_keys)
    \/ \E required \in Optional(BOOLEAN), env_enabled \in AuthEnabledValues,
          env_keys \in EnvKeyLists :
          GetApiKeyAuth(required, env_enabled, env_keys)
    \/ \E api_key \in AuthKeys : AddKey(api_key)
    \/ \E api_key \in AuthKeys : RemoveKey(api_key)
    \/ \E old_key \in AuthKeys, new_key \in AuthKeys : RotateKey(old_key, new_key)
    \/ \E api_key \in Optional(AuthKeys) : Validate(api_key)

SpecAuth == AuthInit /\ [][AuthNext]_vars

\* C23 as claimed: after rotate_key(old_key, new_key), for every pair of
\* keys, old_key is no longer accepted and new_key is; when old_key was
\* accepted and new_key was not, the number of accepted keys is unchanged
\* and so is the membership of every other key.
RotateReplacesAnyPair ==
    [][auth'.op = "rotate_key" =>
          LET old_key == auth'.args[1]
              new_key == auth'.args[2]
          IN  /\ old_key \notin auth'.api_keys
              /\ new_key \in auth'.api_keys
              /\ (old_key \in auth.api_keys /\ new_key \notin auth.api_keys) =>
                    /\ Cardinality(auth'.api_keys) = Cardinality(auth.api_keys)
                    /\ \A k \in AuthKeys \ {old_key, new_key} :
                          k \in auth'.api_keys <=> k \in auth.api_keys]_vars

\* C23, amended: after rotate_key(old_key, new_key) new_key is accepted,
\* and old_key is no longer accepted when it differs from new_key (rotating
\* a key onto itself leaves it accepted); when old_key was accepted and
\* new_key was not, the number of accepted keys is unchanged and so is the
\* membership of every other key.
RotateReplacesDistinctPair ==
    [][auth'.op = "rotate_key" =>
          LET old_key == auth'.args[1]
              new_key == auth'.args[2]
          IN  /\ new_key \in auth'.api_keys
              /\ old_key /= new_key => old_key \notin auth'.api_keys
              /\ \A k \in AuthKeys \ {old_key, new_key} :
                    k \in auth'.api_keys <=> k \in auth.api_keys
              /\ (old_key \in auth.api_keys /\ new_key \notin auth.api_keys) =>
                    Cardinality(auth'.api_keys) = Cardinality(auth.api_keys)]_vars

\* A rotation of an accepted key onto a new one, next to an untouched third
\* key.
RotateReplacesDistinctPairWitness ==
    /\ auth.op = "rotate_key"
    /\ auth.args = <<"k1", "k3">>
    /\ auth.api_keys = {"k2", "k3"}

\* C29 as claimed: a handler whose required flag is true always has at
\* least one accepted key, in every state reached from a successful
\* constructor call through add_key, remove_key, rotate_key and
\* get_api_key_auth(required=...), so validate never rejects every key.
RequiredHandlerHasKey ==
    (auth.op /= "unused" /\ auth.constructed /\ auth.required) =>
        /\ auth.api_keys /= {}
        /\ \E k \in AuthKeys : ValidateKey(auth, Some(k))

(***************************************************************************)
(* The middleware stack of setup_middleware, one request at a time.        *)
(* add_middleware wraps the application in reverse order of addition (the  *)
(* docstring of setup_middleware): the middleware added last is outermost  *)
(* and handles the request first.  Each dispatch has a part before         *)
(* call_next and a part after it.                                          *)
(***************************************************************************)
\* The middleware in the order setup_middleware adds it.
AddOrder ==
    <<"RequestSizeLimit", "RequestID", "SecurityHeaders", "RateLimitHeaders",
      "Logging">>

Reverse(seq) == [i \in 1..Len(seq) |-> seq[Len(seq) + 1 - i]]

\* The middleware from the outermost to the innermost.
Chain == Reverse(AddOrder)

\* config.get("max_request_size", ...), in bytes.
MaxRequestSizes == {10}

\* The Content-Length header of a request: absent, empty, a number, or not
\* a number.
ContentLengths == {None, Some(<<>>), Some(Str(5)), Some(Str(10)), Some(Str(11)),
                   Some(<<"x">>)}

\* The X-Request-ID header of a request: absent, empty, or given.
RequestIds == {None, Some(""), Some("lb-1")}

IsDigits(s) == \A i \in DOMAIN s : \E d \in 0..9 : s[i] = Digit(d)

DigitValue(c) == CHOOSE d \in 0..9 : Digit(d) = c

RECURSIVE ParseInt(_)
\* int(content_length) of a string of digits
ParseInt(s) ==
    IF Len(s) = 0 THEN 0
    ELSE ParseInt(SubSeq(s, 1, Len(s) - 1)) * 10 + DigitValue(s[Len(s)])

\* What RequestSizeLimitMiddleware.dispatch does with the header: passes the
\* request on, answers 413, or fails in int().
SizeCheck(content_length, max_size) ==
    IF content_length = None \/ content_length[1] = <<>> THEN "pass"
    ELSE IF ~IsDigits(content_length[1]) THEN "ValueError"
    ELSE IF ParseInt(content_length[1]) > max_size THEN "413"
    ELSE "pass"

StackIdle ==
    [pc |-> "idle", i |-> 0, content_length |-> None, x_request_id |-> None,
     max_size |-> 0, request_id |-> None, entered |-> <<>>,
     id_at_entry |-> <<>>, status |-> 0, raised |-> FALSE, headers |-> {}]

StackInit ==
    /\ NoLimiters
    /\ NoPipeline
    /\ NoAuth
    /\ stack = StackIdle
    /\ NoModel
    /\ NoHistory

\* A request arrives at the application set up with max_request_size.
StackRequest(content_length, x_request_id, max_size) ==
    /\ stack.pc \in {"idle", "done"}
    /\ stack' = [StackIdle EXCEPT !.pc = "down", !.i = 1,
                                  !.content_length = content_length,
                                  !.x_request_id = x_request_id,
                                  !.max_size = max_size]
    /\ UNCHANGED <<now, bucketVars, limiterVars, threadVars, redisVars,
                   pipeline, auth, model, admittedAt>>

\* request_id of RequestIDMiddleware: the header when it is not empty, else
\* a fresh uuid4.
RequestIdFor(x_request_id) ==
    IF Truthy(x_request_id) THEN x_request_id ELSE Some("uuid4")

\* The part of dispatch before call_next, of the middleware the request has
\* reached.
StackEnter ==
    /\ stack.pc = "down"
    /\ LET mw == Chain[stack.i]
           begun == [stack EXCEPT
                          !.entered = Append(stack.entered, mw),
                          !.id_at_entry = Append(stack.id_at_entry, stack.request_id)]
           check == SizeCheck(stack.content_length, stack.max_size)
           passed == [begun EXCEPT
                         !.i = IF stack.i = Len(Chain) THEN stack.i ELSE stack.i + 1,
                         !.pc = IF stack.i = Len(Chain) THEN "endpoint" ELSE "down"]
       IN  stack' =
              CASE mw = "RequestID" ->
                       [passed EXCEPT !.request_id = RequestIdFor(stack.x_request_id)]
                [] mw = "RequestSizeLimit" /\ check = "413" ->
                       [begun EXCEPT !.pc = "up", !.i = stack.i - 1,
                                       !.status = 413,
                                       !.headers = {"Content-Type"}]
                [] mw = "RequestSizeLimit" /\ check = "ValueError" ->
                       [begun EXCEPT !.pc = "up", !.i = stack.i - 1,
                                       !.raised = TRUE]
                [] OTHER -> passed
    /\ UNCHANGED <<now, bucketVars, limiterVars, threadVars, redisVars,
                   pipeline, auth, model, admittedAt>>

\* The application under the middleware answers or raises.
StackEndpoint(raises) ==
    /\ stack.pc = "endpoint"
    /\ stack' = [stack EXCEPT !.pc = "up", !.raised = raises,
                              !.status = IF raises THEN 0 ELSE 200]
    /\ UNCHANGED <<now, bucketVars, limiterVars, threadVars, redisVars,
                   pipeline, auth, model, admittedAt>>

\* The headers a middleware sets on the response after call_next returned.
HeadersSetBy(mw) ==
    CASE mw = "RequestID" -> {"X-Request-ID"}
      [] mw = "SecurityHeaders" -> {"X-Content-Type-Options", "X-Frame-Options"}
      [] mw = "Logging" -> {"X-Response-Time"}
      [] OTHER -> {}

\* The part of dispatch after call_next, of the middleware the response (or
\* the exception) has come back to.
StackLeave ==
    /\ stack.pc = "up"
    /\ stack' =
          IF stack.i = 0 THEN [stack EXCEPT !.pc = "done"]
          ELSE [stack EXCEPT
                   !.i = stack.i - 1,
                   !.headers = IF stack.raised THEN stack.headers
                               ELSE stack.headers \cup HeadersSetBy(Chain[stack.i])]
    /\ UNCHANGED <<now, bucketVars, limiterVars, threadVars, redisVars,
                   pipeline, auth, model, admittedAt>>

StackNext ==
    \/ \E content_length \in ContentLengths, x_request_id \in RequestIds,
          max_size \in MaxRequestSizes :
          StackRequest(content_length, x_request_id, max_size)
    \/ StackEnter
    \/ \E raises \in BOOLEAN : StackEndpoint(raises)
    \/ StackLeave

SpecStack == StackInit /\ [][StackNext]_vars

\* C24 as claimed: with the stack setup_middleware installs, the request
\* size limit is the first check: a request whose Content-Length exceeds
\* max_size is answered 413 before any other middleware has begun on it;
\* and the request ID is already set when every other middleware (security
\* headers, rate-limit headers, logging) starts handling the request.
SizeLimitFirstAndIdEarly ==
    stack.pc /= "unused" =>
        /\ stack.status = 413 => stack.entered = <<"RequestSizeLimit">>
        /\ \A j \in DOMAIN stack.entered :
              stack.entered[j] \in {"SecurityHeaders", "RateLimitHeaders", "Logging"}
                  => stack.id_at_entry[j] /= None

(***************************************************************************)
(* RateLimiter, one caller at a time, with the history of the admitted     *)
(* checks of each key: the clock values at which checks on the key were    *)
(* admitted since the key's bucket was last discarded by a reset.          *)
(***************************************************************************)
\* The keys the recorded checks are made on.
RateKeys == {"k1"}

AdmittedOn(key) == IF key \in DOMAIN admittedAt THEN admittedAt[key] ELSE <<>>

RateCheck(key) ==
    /\ Len(AdmittedOn(key)) < MaxAdmitted
    /\ IF Bypass
       THEN /\ result' = [op |-> "check", key |-> key, allowed |-> TRUE,
                          headers |-> NoHeaders, replaced |-> "nothing"]
            /\ UNCHANGED <<buckets, admittedAt>>
       ELSE LET o == CheckOutcome(buckets, key, now)
            IN  /\ buckets' = o.buckets
                /\ result' = [op |-> "check", key |-> key, allowed |-> o.allowed,
                              headers |-> o.headers, replaced |-> "nothing"]
                /\ admittedAt' = IF o.allowed
                                 THEN MapPut(admittedAt, key,
                                             Append(AdmittedOn(key), now))
                                 ELSE admittedAt
    /\ UNCHANGED <<now, bucketVars, configVars, seen, discarded, threadVars,
                   redisVars, pipeline, auth, stack, model>>

RateReset(arg) ==
    /\ buckets' = IF Truthy(arg) THEN MapPop(buckets, arg[1]) ELSE EmptyMap
    /\ admittedAt' = IF Truthy(arg) THEN MapPop(admittedAt, arg[1]) ELSE EmptyMap
    /\ result' = [op |-> "reset", key |-> arg]
    /\ UNCHANGED <<now, bucketVars, configVars, seen, discarded, threadVars,
                   redisVars, pipeline, auth, stack, model>>

RateNext ==
    \/ Tick
    \/ \E key \in RateKeys : RateCheck(key)
    \/ \E arg \in Optional(Keys) : RateReset(arg)

SpecRate == Init /\ [][RateNext]_vars

\* The number of entries of the history seq that lie in [from, to].
CountIn(seq, from, to) ==
    Cardinality({i \in DOMAIN seq : from <= seq[i] /\ seq[i] <= to})

\* C25: on an enabled limiter of burst size B and refill rate r, for every
\* key and every interval of length T in which the key's bucket is not
\* discarded by a reset, with a clock that does not go backwards, at most
\* B + r * T sequential checks on the key are admitted within the interval.
TokenBucketRateBound ==
    enabled =>
        \A key \in DOMAIN admittedAt :
            \A from \in 0..now : \A to \in from..now :
                CountIn(admittedAt[key], from, to) * TokenScale
                    <= burst_size * TokenScale + refill_rate * (to - from)

\* A key admitted exactly B + r * T times over T = 2 seconds, at a rate that
\* is not a whole number of tokens per second.
TokenBucketRateBoundWitness ==
    /\ enabled
    /\ requests_per_minute = 40
    /\ now = 2
    /\ \E key \in DOMAIN admittedAt :
          /\ admittedAt[key][1] = 0
          /\ Len(admittedAt[key]) = burst_size + 1
          /\ admittedAt[key][Len(admittedAt[key])] = 2

(***************************************************************************)
(* RedisRateLimiter with the history of the admitted checks of each key.   *)
(* Every pipeline executes atomically and without a failure of the store.  *)
(***************************************************************************)
WindowCheck(key) ==
    LET o == CheckRedisOutcome(redis_client, key, now, "none")
        admits == enabled /\ o.decision[1].allowed
    IN  /\ Len(AdmittedOn(key)) < MaxAdmitted
        /\ redis_client' = o.db
        /\ redisRet' = [op |-> "check", key |-> key, fault |-> "none",
                        raised |-> o.raised, decision |-> o.decision,
                        rate_limit_headers |-> None]
        /\ admittedAt' = IF admits
                         THEN MapPut(admittedAt, key, Append(AdmittedOn(key), now))
                         ELSE admittedAt
        /\ UNCHANGED <<now, bucketVars, limiterVars, threadVars,
                       pipeline, auth, stack, model>>

WindowNext ==
    \/ RedisTick
    \/ \E key \in RedisKeys : WindowCheck(key)

SpecWindow == RedisInit /\ [][WindowNext]_vars

\* C26: with every pipeline executed atomically, for every key and every
\* instant t, at most requests_per_minute admitted checks have their
\* timestamps in the window (t - 60s, t], checks carrying the same timestamp
\* value included.
WindowBound ==
    enabled =>
        \A key \in DOMAIN admittedAt :
            \A t \in 0..now :
                CountIn(admittedAt[key], t - Window + 1, t) <= requests_per_minute

\* C27: a check on a key that has been admitted before is rejected only
\* while one of the key's admitted requests lies in the current window
\* (now - 60s, now]: a client that keeps issuing checks is admitted again
\* no later than 60 seconds after the oldest of them.
RejectedOnlyWithinWindow ==
    [][(/\ enabled
        /\ requests_per_minute >= 1
        /\ now' = now
        /\ redisRet'.op = "check"
        /\ redisRet'.decision /= None
        /\ ~redisRet'.decision[1].allowed
        /\ redisRet'.key \in DOMAIN admittedAt)
           => \E i \in DOMAIN admittedAt[redisRet'.key] :
                 admittedAt[redisRet'.key][i] > now - Window]_vars

\* C28: on an enabled limiter, whatever requests_per_minute and burst_size
\* are, the X-RateLimit-Remaining of every check_rate_limit result is at
\* most its X-RateLimit-Limit.
RemainingAtMostLimit ==
    (enabled /\ result.op = "check") =>
        ParseInt(result.headers["X-RateLimit-Remaining"])
            <= ParseInt(result.headers["X-RateLimit-Limit"])

(***************************************************************************)
(* BaselineFairPriceModel: predict with its in-memory cache, the cache     *)
(* statistics, clear_cache.                                                *)
(***************************************************************************)
CardIds == {"c1", "c2", "c3"}
Dates == {1, 2, 3}

\* str() of a datetime.date
IsoFormat(d) ==
    CASE d = 1 -> "2024-01-01"
      [] d = 2 -> "2024-01-02"
      [] d = 3 -> "2024-01-03"

\* The (card_id, date) index of the features the model is built on.
Indexes ==
    { {<<"c1", 1>>, <<"c1", 2>>, <<"c2", 1>>, <<"c2", 2>>},
      {<<"c1", 2>>, <<"c2", 1>>, <<"c2", 3>>} }

\* features_df indexed by (card_id, date): one row of prices per index entry.
FeaturesDf(index) ==
    [r \in index |->
        [market_price |-> 10 * r[2] + (IF r[1] = "c1" THEN 1 ELSE 2),
         fair_value_baseline |-> 10 * r[2] + 5]]

\* BaselineFairPriceModel(features_df)
BaselineFairPriceModelInit(features_df) ==
    LET known == {r[1] : r \in DOMAIN features_df}
    IN  [op |-> "init",
         features_df |-> features_df,
         latest_dates |->
             [c \in known |->
                 CHOOSE d \in Dates :
                     /\ <<c, d>> \in DOMAIN features_df
                     /\ \A e \in Dates : <<c, e>> \in DOMAIN features_df => e <= d],
         known_card_ids |-> known,
         prediction_cache |-> <<>>,
         cache_max_size |-> MaxCacheSize,
         cache_hits |-> 0,
         cache_misses |-> 0,
         args |-> <<>>,
         ret |-> [raised |-> ""],
         calls |-> 0]

\* cache_key = f"{card_id}:{resolved_date}"
CacheKey(card_id, resolved_date) == card_id \o ":" \o IsoFormat(resolved_date)

\* The result predict computes from features_df, without the cache.
Lookup(features_df, card_id, resolved_date) ==
    <<resolved_date,
      features_df[<<card_id, resolved_date>>].market_price,
      features_df[<<card_id, resolved_date>>].fair_value_baseline>>

ResolvedDate(m, card_id, date) ==
    IF date = None THEN m.latest_dates[card_id] ELSE date[1]

\* Faulty variant: a full cache keeps its oldest entry.
PredictNoEviction(m, card_id, date) ==
    IF card_id \notin m.known_card_ids
    THEN [m EXCEPT !.op = "predict", !.args = <<card_id, date>>,
                   !.ret = [raised |-> "ValueError", hit |-> FALSE, value |-> None]]
    ELSE LET resolved_date == ResolvedDate(m, card_id, date)
             cache_key == CacheKey(card_id, resolved_date)
             cache == m.prediction_cache
             at == {i \in DOMAIN cache : cache[i].key = cache_key}
         IN  IF at /= {}
             THEN [m EXCEPT !.op = "predict", !.args = <<card_id, date>>,
                            !.cache_hits = @ + 1,
                            !.ret = [raised |-> "", hit |-> TRUE,
                                     value |-> cache[CHOOSE i \in at : TRUE].value]]
             ELSE IF <<card_id, resolved_date>> \notin DOMAIN m.features_df
             THEN [m EXCEPT !.op = "predict", !.args = <<card_id, date>>,
                            !.cache_misses = @ + 1,
                            !.ret = [raised |-> "ValueError", hit |-> FALSE,
                                     value |-> None]]
             ELSE LET value == Lookup(m.features_df, card_id, resolved_date)
                  IN  [m EXCEPT !.op = "predict", !.args = <<card_id, date>>,
                                !.cache_misses = @ + 1,
                                !.prediction_cache =
                                    Append(cache, [key |-> cache_key, value |-> value]),
                                !.ret = [raised |-> "", hit |-> FALSE, value |-> value]]

\* model.predict(card_id, date): the model afterwards, with what the call
\* returned or raised.  The cache is a dict: its entries in insertion order.
PredictOutcome(m, card_id, date) ==
    IF card_id \notin m.known_card_ids
    THEN [m EXCEPT !.op = "predict", !.args = <<card_id, date>>,
                   !.ret = [raised |-> "ValueError", hit |-> FALSE, value |-> None]]
    ELSE LET resolved_date == ResolvedDate(m, card_id, date)
             cache_key == CacheKey(card_id, resolved_date)
             cache == m.prediction_cache
             at == {i \in DOMAIN cache : cache[i].key = cache_key}
         IN  IF at /= {}
             THEN [m EXCEPT !.op = "predict", !.args = <<card_id, date>>,
                            !.cache_hits = @ + 1,
                            !.ret = [raised |-> "", hit |-> TRUE,
                                     value |-> cache[CHOOSE i \in at : TRUE].value]]
             ELSE IF <<card_id, resolved_date>> \notin DOMAIN m.features_df
             THEN [m EXCEPT !.op = "predict", !.args = <<card_id, date>>,
                            !.cache_misses = @ + 1,
                            !.ret = [raised |-> "ValueError", hit |-> FALSE,
                                     value |-> None]]
             ELSE LET value == Lookup(m.features_df, card_id, resolved_date)
                      kept == IF Len(cache) >= m.cache_max_size
                              THEN Tail(cache) ELSE cache
                  IN  [m EXCEPT !.op = "predict", !.args = <<card_id, date>>,
                                !.cache_misses = @ + 1,
                                !.prediction_cache =
                                    Append(kept, [key |-> cache_key, value |-> value]),
                                !.ret = [raised |-> "", hit |-> FALSE, value |-> value]]

ModelInit ==
    /\ NoLimiters
    /\ NoPipeline
    /\ NoAuth
    /\ NoStack
    /\ \E index \in Indexes : model = BaselineFairPriceModelInit(FeaturesDf(index))
    /\ NoHistory

\* model.predict(card_id, date); calls counts the calls made for a known
\* card id since the last clear_cache.
Predict(card_id, date) ==
    /\ model.cache_hits + model.cache_misses < MaxPredicts
    /\ model' = [PredictOutcome(model, card_id, date) EXCEPT
                    !.calls = IF card_id \in model.known_card_ids THEN @ + 1 ELSE @]
    /\ UNCHANGED <<now, bucketVars, limiterVars, threadVars, redisVars,
                   pipeline, auth, stack, admittedAt>>

\* model.get_cache_stats(); hit_rate is the pair <<hits, total>>, <<0, 1>>
\* for 0.0.
GetCacheStats ==
    LET total_requests == model.cache_hits + model.cache_misses
    IN  /\ model' = [model EXCEPT
                        !.op = "get_cache_stats", !.args = <<>>,
                        !.ret = [raised |-> "",
                                 cache_hits |-> model.cache_hits,
                                 cache_misses |-> model.cache_misses,
                                 cache_size |-> Len(model.prediction_cache),
                                 cache_max_size |-> model.cache_max_size,
                                 hit_rate |-> IF total_requests > 0
                                              THEN <<model.cache_hits, total_requests>>
                                              ELSE <<0, 1>>,
                                 total_requests |-> total_requests]]
        /\ UNCHANGED <<now, bucketVars, limiterVars, threadVars, redisVars,
                       pipeline, auth, stack, admittedAt>>

\* model.clear_cache()
ClearCache ==
    /\ model' = [model EXCEPT !.op = "clear_cache", !.args = <<>>,
                              !.ret = [raised |-> ""],
                              !.prediction_cache = <<>>,
                              !.cache_hits = 0,
                              !.cache_misses = 0,
                              !.calls = 0]
    /\ UNCHANGED <<now, bucketVars, limiterVars, threadVars, redisVars,
                   pipeline, auth, stack, admittedAt>>

ModelNext ==
    \/ \E card_id \in CardIds, date \in Optional(Dates) : Predict(card_id, date)
    \/ GetCacheStats
    \/ ClearCache

SpecModel == ModelInit /\ [][ModelNext]_vars

\* C30: after any sequence of predict and clear_cache calls the cache holds
\* at most _cache_max_size entries, each of them the result of a successful
\* lookup under its own key, no key twice; a predict answered from the cache
\* returns the (date, market_price, fair_price) an uncached lookup gives; and
\* cache_hits + cache_misses, which get_cache_stats reports as
\* total_requests, is the number of predict calls made for known card ids
\* since the last clear.
CacheBoundedAndTransparent ==
    LET cache == model.prediction_cache
    IN  /\ Len(cache) <= model.cache_max_size
        /\ \A i \in DOMAIN cache :
              \E r \in DOMAIN model.features_df :
                  /\ cache[i].key = CacheKey(r[1], r[2])
                  /\ cache[i].value = Lookup(model.features_df, r[1], r[2])
        /\ \A i, j \in DOMAIN cache : cache[i].key = cache[j].key => i = j
        /\ (model.op = "predict" /\ model.ret.hit) =>
              /\ model.ret.raised = ""
              /\ model.ret.value =
                    Lookup(model.features_df, model.args[1],
                           ResolvedDate(model, model.args[1], model.args[2]))
        /\ model.cache_hits + model.cache_misses = model.calls
        /\ model.op = "get_cache_stats" =>
              /\ model.ret.total_requests = model.calls
              /\ model.ret.cache_size <= model.ret.cache_max_size

\* A predict answered from a full cache that has already evicted an entry:
\* every cached key was looked up successfully, and more successful lookups
\* were made than the cache holds.
CacheBoundedAndTransparentWitness ==
    /\ model.op = "predict"
    /\ model.ret.hit
    /\ Len(model.prediction_cache) = model.cache_max_size
    /\ model.cache_misses > model.cache_max_size
    /\ model.cache_hits >= 2

====
